---------------------------- MODULE Spec2Model ----------------------------
(***************************************************************************)
(* A model of cooltools/cli/call_dots.py: the tile scorer, the lambda-     *)
(* chunked histogramming with its map-reduce merge, the enrichment filter  *)
(* and the call_dots command that validates its inputs and drives them.    *)
(*                                                                         *)
(* Numbers.  Observed counts, NaN counts and bin ids are integers.  A      *)
(* locally adjusted expected value is a non-negative integer (the floats   *)
(* of the code restricted to whole values); a lambda edge base^e with      *)
(* base = 2^(1/3) is kept as its exponent e, so that v <= base^e is        *)
(* decided exactly as v^3 <= 2^e.  Poisson p-values are not modelled: they *)
(* are added as columns after the rows of a tile have been selected and    *)
(* select nothing.                                                         *)
(***************************************************************************)
EXTENDS Integers, Sequences, FiniteSets, TLC

\* ------------------------------------------------------------------ bounds
MaxPix == 2
MaxTiles == 3
MaxObs == 2
MaxCentroids == 1

\* --------------------------------------------------------------- constants
HiCCUPS_W1_MAX_INDX == 40

\* thresholding_step's enrichment factors 1.5, 1.75 and 2.0 in hundredths and
\* its FDR_orphan_threshold 0.02 in thousandths.
enrichment_factor_1 == 150
enrichment_factor_2 == 175
enrichment_factor_3 == 200
FDR_orphan_threshold == 20

\* The defaults of --max-loci-separation and --max-nans-tolerated.
max_loci_separation == 2000000
max_nans_tolerated == 1

ktypes == <<"donut", "vertical", "horizontal", "lowleft">>

Range(s) == {s[i] : i \in 1..Len(s)}

Max(a, b) == IF a >= b THEN a ELSE b

RECURSIVE SumSeq(_)
SumSeq(s) == IF s = <<>> THEN 0 ELSE s[1] + SumSeq(Tail(s))

RECURSIVE Filter(_, _)
Filter(s, keep) ==
  IF s = <<>> THEN <<>>
  ELSE IF keep[1] THEN <<s[1]>> \o Filter(Tail(s), Tail(keep))
       ELSE Filter(Tail(s), Tail(keep))

\* Sequences over S of length 0..n.
SeqUpTo(S, n) == UNION {[1..k -> S] : k \in 0..n}

\* ---------------------------------------------------------------- score_tile
\* (1) the pixel connects loci closer than band_to_cover.
is_inside_band_mut(px, band_to_cover) == px.bin1_id >= (px.bin2_id - band_to_cover)
is_inside_band(px, band_to_cover) == px.bin1_id > (px.bin2_id - band_to_cover)

\* (2) the pixel passes the NaN compliance test for ALL kernels.
does_comply_nans_mut(px, kernels, nans_tolerated) ==
  \A k \in kernels : px.nnans[k] <= nans_tolerated
does_comply_nans(px, kernels, nans_tolerated) ==
  \A k \in kernels : px.nnans[k] < nans_tolerated

\* result[is_inside_band & does_comply_nans].reset_index(drop=True), where
\* result is the table the convolution returned for the tile.
score_tile(result, kernels, nans_tolerated, band_to_cover) ==
  Filter(result,
         [i \in 1..Len(result) |->
            is_inside_band(result[i], band_to_cover)
            /\ does_comply_nans(result[i], kernels, nans_tolerated)])

\* ------------------------------------------------------------ lambda edges
\* An edge of the lambda bins: -inf, +inf, or base^e with base = 2^(1/3).
NegInf == [inf |-> 0 - 1, e |-> 0]
PosInf == [inf |-> 1, e |-> 0]
Fin(x) == [inf |-> 0, e |-> x]

\* a < b on edges.
EdgeLess(a, b) == \/ a.inf < b.inf
                  \/ a.inf = 0 /\ b.inf = 0 /\ a.e < b.e

\* The exponents of np.logspace(start, stop, num=num, base=base): num evenly
\* spaced exponents from start to stop, both included (the steps of this
\* program are whole numbers).
logspace(start, stop, num) ==
  [i \in 1..num |-> IF num = 1 THEN start
                    ELSE start + ((i - 1) * (stop - start)) \div (num - 1)]

\* ledges = np.concatenate(([-inf], np.logspace(0, nlchunks-1, num=nlchunks,
\* base=2**(1/3.0)), [inf])) with nlchunks = HiCCUPS_W1_MAX_INDX.
make_ledges(nlchunks) ==
  LET es == logspace(0, nlchunks - 1, nlchunks)
  IN <<NegInf>> \o [i \in 1..Len(es) |-> Fin(es[i])] \o <<PosInf>>

\* The lambda bins pd.cut makes of the edges: bin i is (ledges[i], ledges[i+1]].
NumBins(ledges) == Len(ledges) - 1

\* v <= edge and edge < v for a locally adjusted expected value v >= 0 below
\* 2^10: v <= 2^(e/3) iff v^3 <= 2^e, which holds for every e >= 30.
ValLeqEdge(v, edge) ==
  IF edge.inf # 0 THEN edge.inf = 1
  ELSE IF edge.e >= 30 THEN TRUE ELSE v * v * v <= 2 ^ edge.e

\* pd.cut(value, ledges): the index of the bin (left, right] holding the value,
\* 0 (NaN, no bin) when none does.
cut(v, ledges) ==
  LET hit == {i \in 1..NumBins(ledges) :
                ~ValLeqEdge(v, ledges[i]) /\ ValLeqEdge(v, ledges[i + 1])}
  IN IF hit = {} THEN 0 ELSE CHOOSE i \in hit : \A j \in hit : i <= j

\* The edges call_dots builds.
Ledges == make_ledges(HiCCUPS_W1_MAX_INDX)

\* -------------------------------------------------- histogram_scored_pixels
\* A DataFrame of counts is kept by its shape and its cells that are not
\* zero: nrows rows (the index 0..nrows-1, row r of the model being index
\* r-1), the columns named in labels, and cnt[<<label, r>>] for the cells
\* that hold a count above zero.
NaN == 0 - 1

\* The value of a frame at (column c, row r): NaN where the frame has no
\* such cell.
cell(frame, c, r) ==
  IF c \notin frame.labels \/ r > frame.nrows THEN NaN
  ELSE IF <<c, r>> \in DOMAIN frame.cnt THEN frame.cnt[<<c, r>>] ELSE 0

\* hists[k]: obs_hist after the loop over the lambda bins, then
\* .fillna(0).astype(np.integer).  scored_df.groupby(lbins) yields every
\* lambda bin, in order, with the rows pd.cut put in it; np.bincount of their
\* observed counts is a series with an entry for every count from 0 to the
\* largest one (no entry for a bin without rows).  obs_hist[lbin] = series
\* gives a frame that has no rows yet the index of the series, and aligns the
\* series to the index of a frame that has rows: entries past that index are
\* dropped, missing ones are NaN (0 after fillna).  So the frame's index is
\* that of the series of the first lambda bin that has rows, and a row of
\* scored_df is counted only if its observed count lies in that index.
obs_hist(scored_df, k, ledges) ==
  LET lbin_of(i) == cut(scored_df[i].la[k], ledges)
      filled == {lbin_of(i) : i \in 1..Len(scored_df)} \ {0}
      first == CHOOSE f \in filled : \A g \in filled : f <= g
      in_first == {i \in 1..Len(scored_df) : lbin_of(i) = first}
      n == IF filled = {} THEN 0
           ELSE 1 + (CHOOSE m \in {scored_df[i].obs : i \in in_first} :
                       \A i \in in_first : scored_df[i].obs <= m)
      kept == {i \in 1..Len(scored_df) :
                 lbin_of(i) # 0 /\ scored_df[i].obs + 1 <= n}
  IN [nrows |-> n,
      labels |-> 1..NumBins(ledges),
      cnt |-> [cr \in {<<lbin_of(i), scored_df[i].obs + 1>> : i \in kept} |->
                 Cardinality({i \in kept :
                                <<lbin_of(i), scored_df[i].obs + 1>> = cr})]]

\* hists: the histogram of every kernel.
histogram_scored_pixels(scored_df, kernels, ledges) ==
  [k \in kernels |-> obs_hist(scored_df, k, ledges)]

\* ------------------------------------------------------------- _sum_hists
\* fx.add(fy, fill_value=0): both frames are aligned on the union of their
\* rows and of their columns; a cell missing in one frame counts 0 there, a
\* cell missing in both stays missing, and .astype(np.integer) then raises.
\* A cell (c, r) of the union is missing in both when one frame lacks the
\* column c and the other, which has it, lacks the row r.
frame_add_raises(fx, fy) ==
  \/ fy.labels \ fx.labels # {} /\ fy.nrows < fx.nrows
  \/ fx.labels \ fy.labels # {} /\ fx.nrows < fy.nrows

frame_add_mut(fx, fy) ==
  LET n == IF fx.nrows <= fy.nrows THEN fx.nrows ELSE fy.nrows
      at(f, cr) == IF cr \in DOMAIN f.cnt THEN f.cnt[cr] ELSE 0
  IN [nrows |-> n,
      labels |-> fx.labels \cup fy.labels,
      cnt |-> [cr \in {x \in (DOMAIN fx.cnt) \cup (DOMAIN fy.cnt) : x[2] <= n}
                 |-> at(fx, cr) + at(fy, cr)]]
frame_add(fx, fy) ==
  LET at(f, cr) == IF cr \in DOMAIN f.cnt THEN f.cnt[cr] ELSE 0
  IN [nrows |-> Max(fx.nrows, fy.nrows),
      labels |-> fx.labels \cup fy.labels,
      cnt |-> [cr \in (DOMAIN fx.cnt) \cup (DOMAIN fy.cnt) |->
                 at(fx, cr) + at(fy, cr)]]

\* _sum_hists(hx, hy): [ok |-> it returned, h |-> the sum for every kernel].
sum_hists(hx, hy, kernels) ==
  [ok |-> \A k \in kernels : ~frame_add_raises(hx[k], hy[k]),
   h |-> [k \in kernels |-> frame_add(hx[k], hy[k])]]

\* ------------------------------------------------------- thresholding_step
\* A centroid holds its observed count obs, its cluster size c_size and, for
\* every kernel, its locally adjusted expected value la[k] and its q-value
\* qval[k] in thousandths.  obs > f * la with the factor f in hundredths is
\* 100 * obs > f * la.
enrichment_fdr_comply_mut(c, f1, f2, f3, fdr) ==
  /\ 100 * c.obs > f2 * c.la["lowleft"]
  /\ 100 * c.obs > f2 * c.la["donut"]
  /\ 100 * c.obs > f1 * c.la["vertical"]
  /\ 100 * c.obs > f1 * c.la["horizontal"]
  /\ \/ 100 * c.obs > f3 * c.la["lowleft"]
     \/ 100 * c.obs > f3 * c.la["donut"]
  /\ \/ c.c_size > 1
     \/ c.qval["lowleft"] + c.qval["donut"] + c.qval["vertical"]
          + c.qval["horizontal"] < fdr
enrichment_fdr_comply(c, f1, f2, f3, fdr) ==
  /\ 100 * c.obs > f2 * c.la["lowleft"]
  /\ 100 * c.obs > f2 * c.la["donut"]
  /\ 100 * c.obs > f1 * c.la["vertical"]
  /\ 100 * c.obs > f1 * c.la["horizontal"]
  /\ \/ 100 * c.obs > f3 * c.la["lowleft"]
     \/ 100 * c.obs > f3 * c.la["donut"]
  /\ \/ c.c_size > 1
     \/ c.qval["lowleft"] + c.qval["donut"] + c.qval["vertical"]
          + c.qval["horizontal"] <= fdr

\* out = centroids[enrichment_fdr_comply]
thresholding_step(centroids) ==
  Filter(centroids,
         [i \in 1..Len(centroids) |->
            enrichment_fdr_comply(centroids[i], enrichment_factor_1,
                                  enrichment_factor_2, enrichment_factor_3,
                                  FDR_orphan_threshold)])

\* ------------------------------------------------ call_dots: validation
\* The sum of f over the set S of its arguments.
RECURSIVE SumOver(_, _)
SumOver(f, S) ==
  IF S = {} THEN 0
  ELSE LET x == CHOOSE y \in S : TRUE IN f[x] + SumOver(f, S \ {x})

\* An expected table is kept as the number of its rows for every chromosome
\* it names, a cooler as the number of its bins for every chromosome it has.
get_exp_chroms(expected) == DOMAIN expected

\* set(expected_chroms).issubset(clr.chromnames)
chroms_issubset_mut(expected_chroms, chromnames) == chromnames \subseteq expected_chroms
chroms_issubset(expected_chroms, chromnames) == expected_chroms \subseteq chromnames

\* df.index.get_level_values("chrom").isin(ref_chroms).sum(): the rows of the
\* expected table whose chromosome is one of ref_chroms.
get_exp_bins(expected, ref_chroms) ==
  SumOver(expected, (DOMAIN expected) \cap ref_chroms)

\* clr.bins()[:]["chrom"].isin(expected_chroms).sum()
get_cool_bins(clr, expected_chroms) ==
  SumOver(clr, (DOMAIN clr) \cap expected_chroms)

\* The kernel parameters w, p for the cooler's resolution, or the ValueError.
kernel_params(binsize) ==
  IF binsize > 28000 THEN [ok |-> FALSE, w |-> 0, p |-> 0]
  ELSE IF binsize >= 18000 THEN [ok |-> TRUE, w |-> 3, p |-> 1]
  ELSE IF binsize >= 8000 THEN [ok |-> TRUE, w |-> 5, p |-> 2]
  ELSE IF binsize >= 4000 THEN [ok |-> TRUE, w |-> 7, p |-> 4]
  ELSE [ok |-> FALSE, w |-> 0, p |-> 0]

\* The condition of the if that guards clustering_step and thresholding_step.
clustering_enabled_mut == TRUE
clustering_enabled == FALSE

\* ------------------------------------------------------- the scoring steps
\* chunksize=int(np.ceil(len(tiles)/nproc))
chunksize_of(ntiles, nproc) == (ntiles + nproc - 1) \div nproc

\* The chunk of tile i, and the tiles of chunk c, for pool.imap.
chunk_of(i, chunksize) == ((i - 1) \div chunksize) + 1
tiles_of(c, chunksize, ntiles) ==
  {i \in 1..ntiles : chunk_of(i, chunksize) = c}

\* ------------------------------------------------------------------- state
VARIABLES
  st,      \* a call of score_tile: its arguments and the table it returns
  hs,      \* a call of histogram_scored_pixels: its arguments and its result
  parts,   \* the partial histograms the tiles' jobs returned, in order
  hpool,   \* the histograms still to be summed: partials and sums of them
  merr,    \* a call of _sum_hists raised
  th,      \* a call of thresholding_step: the centroids and the dots it keeps
  cd,      \* a run of call_dots: its inputs, its locals, what it has written
  sc,      \* a call of scoring_step or scoring_and_histogramming_step
  cl       \* the centroid selection of clustering_step on a table and a shuffle of it

vars == <<st, hs, parts, hpool, merr, th, cd, sc, cl>>
mergeVars == <<parts, hpool, merr>>

Kernels == Range(ktypes)

\* ------------------------------------------- the calls of score_tile (SpecTile)
\* The rows the convolution can return for a tile: a pixel with its NaN count
\* for every kernel.
BinPairs == {<<0, 0>>, <<0, 1>>, <<0, 2>>}
NansTolerated == {1, 2}
BandsToCover == {1, 2}

ConvPixels ==
  {[bin1_id |-> b[1], bin2_id |-> b[2], obs |-> 1, nnans |-> nn,
    la |-> [k \in Kernels |-> 1]] :
     b \in BinPairs, nn \in [Kernels -> {0, 1}]}

StIdle == [phase |-> "idle", result |-> <<>>, kernels |-> {},
           nans_tolerated |-> 0, band_to_cover |-> 0, res_df |-> <<>>]
HsIdle == [phase |-> "idle", scored_df |-> <<>>, kernels |-> {}, hists |-> <<>>]
ThIdle == [phase |-> "idle", centroids |-> <<>>, out |-> <<>>]
CdIdle == [pc |-> "idle", clr |-> <<>>, expected |-> <<>>, binsize |-> 0,
           nproc |-> 0, verbose |-> FALSE, expected_chroms |-> {},
           w |-> 0, p |-> 0, loci_separation_bins |-> 0, ledges |-> <<>>,
           ntiles |-> 0, tiles_made |-> FALSE, gw_hist |-> <<>>,
           hist_files |-> {}, clustered |-> FALSE, thresholded |-> FALSE,
           calls_written |-> FALSE, err |-> "none"]
ClIdle == [phase |-> "idle", df |-> <<>>, shuffled |-> <<>>,
           centroids |-> <<>>, centroids_shuffled |-> <<>>]
ScIdle == [fn |-> "none", pc |-> "idle", ntiles |-> 0, nans_tolerated |-> 0,
           band_to_cover |-> 0, nproc |-> 0, verbose |-> FALSE,
           pool |-> "none", chunksize |-> 1, jobs |-> <<>>, nxt |-> 1,
           acc |-> <<>>, has_acc |-> FALSE, file |-> <<>>, append |-> FALSE,
           err |-> "none"]

InitTile ==
  /\ st \in {[phase |-> "called", result |-> r, kernels |-> Kernels,
              nans_tolerated |-> t, band_to_cover |-> b, res_df |-> <<>>] :
               r \in SeqUpTo(ConvPixels, MaxPix), t \in NansTolerated,
               b \in BandsToCover}
  /\ hs = HsIdle /\ th = ThIdle
  /\ parts = <<>> /\ hpool = <<>> /\ merr = FALSE
  /\ cd = CdIdle /\ sc = ScIdle /\ cl = ClIdle

ScoreTile ==
  /\ st.phase = "called"
  /\ st' = [st EXCEPT
              !.res_df = score_tile(st.result, st.kernels, st.nans_tolerated,
                                    st.band_to_cover),
              !.phase = "returned"]
  /\ UNCHANGED <<hs, mergeVars, th, cd, sc, cl>>

NextTile == ScoreTile

SpecTile == InitTile /\ [][NextTile]_vars

\* C1: score_tile keeps a pixel of the convolved tile if and only if it lies
\* within the band (bin1_id > bin2_id - band_to_cover) and, for every kernel,
\* its NaN count is strictly less than nans_tolerated: the rows returned are
\* exactly the rows of the tile with both properties, in the tile's order.
C1_Kept(px) ==
  /\ px.bin1_id > px.bin2_id - st.band_to_cover
  /\ \A k \in st.kernels : px.nnans[k] < st.nans_tolerated

LaVals == {1, 2}

ScoredPixels ==
  {[bin1_id |-> 0, bin2_id |-> 0, obs |-> o, nnans |-> [k \in Kernels |-> 0],
    la |-> l] : o \in 0..MaxObs, l \in [Kernels -> LaVals]}

InitHist ==
  /\ hs \in {[phase |-> "called", scored_df |-> df, kernels |-> Kernels,
              hists |-> <<>>] : df \in SeqUpTo(ScoredPixels, MaxPix)}
  /\ st = StIdle /\ th = ThIdle
  /\ parts = <<>> /\ hpool = <<>> /\ merr = FALSE
  /\ cd = CdIdle /\ sc = ScIdle /\ cl = ClIdle

HistogramScoredPixels ==
  /\ hs.phase = "called"
  /\ hs' = [hs EXCEPT
              !.hists = histogram_scored_pixels(
                          hs.scored_df, hs.kernels, Ledges),
              !.phase = "returned"]
  /\ UNCHANGED <<st, mergeVars, th, cd, sc, cl>>

NextHist == HistogramScoredPixels

SpecHist == InitHist /\ [][NextHist]_vars

\* The observed counts of the rows of the scored table whose locally
\* adjusted expected value for kernel k lies in lambda bin lbin.
C4_ObsInBin(k, lbin) ==
  {i \in 1..Len(hs.scored_df) :
     /\ ~ValLeqEdge(hs.scored_df[i].la[k], Ledges[lbin])
     /\ ValLeqEdge(hs.scored_df[i].la[k], Ledges[lbin + 1])}

\* C4: for every kernel, histogram_scored_pixels assigns each scored pixel to
\* exactly one lambda bin and, for every lambda bin, returns a dense vector
\* whose entry at index v is the number of pixels of that bin with observed
\* count v, for every v from 0 to the largest observed count in that bin,
\* whatever the other lambda bins of the same table contain.
C4_DenseCountsPerBin ==
  hs.phase = "returned" =>
    \A k \in hs.kernels :
      /\ \A i \in 1..Len(hs.scored_df) :
           Cardinality({lbin \in 1..NumBins(Ledges) :
                          i \in C4_ObsInBin(k, lbin)}) = 1
      /\ \A lbin \in 1..NumBins(Ledges) :
           \A i \in C4_ObsInBin(k, lbin) :
             \A v \in 0..hs.scored_df[i].obs :
               /\ lbin \in hs.hists[k].labels
               /\ v + 1 <= hs.hists[k].nrows
               /\ cell(hs.hists[k], lbin, v + 1) =
                    Cardinality({j \in C4_ObsInBin(k, lbin) :
                                   hs.scored_df[j].obs = v})

\* --------------------------- the reduction of the partials (SpecMerge)
\* The tables whose histograms are merged hold at most one scored pixel: its
\* observed count sets the length of the histogram, its locally adjusted
\* expected values set the lambda bin of every kernel.
MergeObs == {0, 2}
MergeLa ==
  {[k \in Kernels |-> 1],
   [k \in Kernels |-> IF k = "donut" THEN 2 ELSE 1],
   [k \in Kernels |-> IF k = "donut" THEN 1 ELSE 2]}

MergePixels ==
  {[bin1_id |-> 0, bin2_id |-> 0, obs |-> o, nnans |-> [k \in Kernels |-> 0],
    la |-> l] : o \in MergeObs, l \in MergeLa}

\* The partial histograms the jobs can return for them.
MergePartials ==
  {histogram_scored_pixels(df, Kernels, Ledges) : df \in SeqUpTo(MergePixels, 1)}

InitMerge ==
  /\ st = StIdle /\ hs = HsIdle /\ th = ThIdle
  /\ parts = <<>> /\ hpool = <<>> /\ merr = FALSE
  /\ cd = CdIdle /\ sc = ScIdle /\ cl = ClIdle

\* A tile's job returns its partial histogram.
JobReturns ==
  /\ ~merr
  /\ Len(parts) < MaxTiles
  /\ \E h \in MergePartials :
       /\ parts' = Append(parts, h)
       /\ hpool' = Append(hpool, h)
  /\ UNCHANGED <<st, hs, merr, th, cd, sc, cl>>

\* _sum_hists(hx, hy) on any two of the histograms to be summed; the sum
\* takes their place.
SumHists ==
  /\ ~merr
  /\ \E i, j \in 1..Len(hpool) :
       /\ i # j
       /\ LET r == sum_hists(hpool[i], hpool[j], Kernels)
              rest == Filter(hpool, [n \in 1..Len(hpool) |-> n # i /\ n # j])
          IN IF r.ok
             THEN hpool' = <<r.h>> \o rest /\ merr' = FALSE
             ELSE hpool' = hpool /\ merr' = TRUE
  /\ UNCHANGED <<st, hs, parts, th, cd, sc, cl>>

NextMerge == JobReturns \/ SumHists

SpecMerge == InitMerge /\ [][NextMerge]_vars

\* The count a histogram holds at (kernel, lambda bin, observed value + 1),
\* zero where it has no entry.
C3_Count(h, k, lbin, r) ==
  IF cell(h[k], lbin, r) = NaN THEN 0 ELSE cell(h[k], lbin, r)

\* The cells where some histogram of a sequence holds a count above zero.
C3_Cells(hseq, k) == UNION {DOMAIN hseq[n][k].cnt : n \in 1..Len(hseq)}

C3_Total(hseq, k, lbin, r) ==
  SumSeq([n \in 1..Len(hseq) |-> C3_Count(hseq[n], k, lbin, r)])

\* C3: merging partial histograms with _sum_hists is an element-wise,
\* zero-padded addition: in any merge order and grouping the merge succeeds
\* and the counts of the histograms still to be summed add up, at every
\* (kernel, lambda bin, observed value), to the sum of the partial counts
\* there; so the single histogram left at the end holds exactly that sum.
C3_MergeIsZeroPaddedSum ==
  /\ ~merr
  /\ \A k \in Kernels :
       \A cr \in C3_Cells(hpool, k) \cup C3_Cells(parts, k) :
         C3_Total(hpool, k, cr[1], cr[2]) = C3_Total(parts, k, cr[1], cr[2])
  /\ \A n \in 1..Len(hpool) : \A k \in Kernels :
       /\ \E m \in 1..Len(parts) : hpool[n][k].nrows = parts[m][k].nrows
       /\ \A m \in 1..Len(parts) :
            Len(hpool) = 1 => hpool[n][k].nrows >= parts[m][k].nrows
       /\ hpool[n][k].labels = 1..NumBins(Ledges)

\* Partials of different lengths, with counts in different lambda bins, have
\* been merged into one histogram.
C3_Witness ==
  /\ Len(parts) >= 3
  /\ Len(hpool) = 1
  /\ \E a, b \in 1..Len(parts) :
       /\ parts[a]["donut"].nrows < parts[b]["donut"].nrows
       /\ parts[a]["donut"].nrows > 0
       /\ \E cr \in DOMAIN parts[a]["donut"].cnt :
            \A cq \in DOMAIN parts[b]["donut"].cnt : cr[1] # cq[1]

\* ------------------------------ the calls of thresholding_step (SpecThresh)
\* The centroids: observed counts and locally adjusted expected values on
\* both sides of every enrichment factor (7 = 1.75 * 4, 8 = 2.0 * 4,
\* 9 = 1.5 * 6), clusters of one and two pixels, q-values that sum to less
\* than, exactly and more than 0.02.
CentroidObs == {7, 8, 9}
CentroidQvals ==
  {[k \in Kernels |-> 0], [k \in Kernels |-> 5],
   [k \in Kernels |-> IF k = "lowleft" THEN 10 ELSE 5],
   [k \in Kernels |-> IF k = "horizontal" THEN 10 ELSE 5]}

Centroids ==
  {[obs |-> o, c_size |-> n, qval |-> q,
    la |-> [k \in Kernels |->
              CASE k = "lowleft" -> ll [] k = "donut" -> d
                [] k = "vertical" -> v [] OTHER -> h]] :
     o \in CentroidObs, n \in {1, 2}, q \in CentroidQvals,
     ll \in {3, 4}, d \in {3, 4}, v \in {4, 6}, h \in {4, 6}}

InitThresh ==
  /\ th \in {[phase |-> "called", centroids |-> cs, out |-> <<>>] :
               cs \in SeqUpTo(Centroids, MaxCentroids)}
  /\ st = StIdle /\ hs = HsIdle
  /\ parts = <<>> /\ hpool = <<>> /\ merr = FALSE
  /\ cd = CdIdle /\ sc = ScIdle /\ cl = ClIdle

ThresholdingStep ==
  /\ th.phase = "called"
  /\ th' = [th EXCEPT !.out = thresholding_step(th.centroids),
                      !.phase = "returned"]
  /\ UNCHANGED <<st, hs, mergeVars, cd, sc, cl>>

NextThresh == ThresholdingStep

SpecThresh == InitThresh /\ [][NextThresh]_vars

\* C10: thresholding_step accepts a centroid if and only if all four hold:
\* observed > 1.75 x la_exp(lowleft) and observed > 1.75 x la_exp(donut);
\* observed > 1.5 x la_exp(vertical) and observed > 1.5 x la_exp(horizontal);
\* observed > 2.0 x la_exp(lowleft) or observed > 2.0 x la_exp(donut);
\* cluster size > 1 or the sum of the four kernels' q-values <= 0.02.  The
\* comparisons on enrichment are strict, the one on the q-values is not.
C10_Accepted(c) ==
  /\ 4 * c.obs > 7 * c.la["lowleft"] /\ 4 * c.obs > 7 * c.la["donut"]
  /\ 2 * c.obs > 3 * c.la["vertical"] /\ 2 * c.obs > 3 * c.la["horizontal"]
  /\ (c.obs > 2 * c.la["lowleft"] \/ c.obs > 2 * c.la["donut"])
  /\ (c.c_size > 1
      \/ SumSeq([i \in 1..Len(ktypes) |-> c.qval[ktypes[i]]]) * 50 <= 1000)

C10_AcceptsIffAllFour ==
  th.phase = "returned" =>
    /\ \A i \in 1..Len(th.out) : C10_Accepted(th.out[i])
    /\ th.out = Filter(th.centroids,
                       [i \in 1..Len(th.centroids) |->
                          C10_Accepted(th.centroids[i])])

\* A single-pixel cluster whose q-values sum to exactly 0.02 and whose
\* observed count passes every enrichment test has been accepted.
C10_Witness ==
  /\ th.phase = "returned"
  /\ Len(th.out) = 1
  /\ th.out[1].c_size = 1
  /\ SumSeq([i \in 1..Len(ktypes) |-> th.out[1].qval[ktypes[i]]]) = 20


\* ------------------- thresholding_step under other thresholds (SpecMono)
\* out = centroids[enrichment_fdr_comply] with the thresholds t in place of
\* the values thresholding_step assigns to them.
threshold_filter_mut(centroids, t) ==
  Filter(centroids,
         [i \in 1..Len(centroids) |->
            enrichment_fdr_comply(centroids[i], 400 - t.enrichment_factor_1,
                                  t.enrichment_factor_2, t.enrichment_factor_3,
                                  t.FDR_orphan_threshold)])
threshold_filter(centroids, t) ==
  Filter(centroids,
         [i \in 1..Len(centroids) |->
            enrichment_fdr_comply(centroids[i], t.enrichment_factor_1,
                                  t.enrichment_factor_2, t.enrichment_factor_3,
                                  t.FDR_orphan_threshold)])

\* The thresholds of thresholding_step, and the ways to raise one of them
\* while the others stay.
CodeThresholds ==
  [enrichment_factor_1 |-> enrichment_factor_1,
   enrichment_factor_2 |-> enrichment_factor_2,
   enrichment_factor_3 |-> enrichment_factor_3,
   FDR_orphan_threshold |-> FDR_orphan_threshold]

RaisedThresholds ==
  {[CodeThresholds EXCEPT !.enrichment_factor_1 = v] : v \in {175, 200}}
  \cup {[CodeThresholds EXCEPT !.enrichment_factor_2 = v] : v \in {200, 225}}
  \cup {[CodeThresholds EXCEPT !.enrichment_factor_3 = v] : v \in {225, 250}}
  \cup {[CodeThresholds EXCEPT !.FDR_orphan_threshold = v] : v \in {25, 30}}

InitMono ==
  /\ th \in {[phase |-> "called", centroids |-> cs, thresholds |-> CodeThresholds,
               raised |-> r, out |-> <<>>, out_raised |-> <<>>] :
               cs \in SeqUpTo(Centroids, 1), r \in RaisedThresholds}
  /\ st = StIdle /\ hs = HsIdle
  /\ parts = <<>> /\ hpool = <<>> /\ merr = FALSE
  /\ cd = CdIdle /\ sc = ScIdle /\ cl = ClIdle

\* The centroids are filtered under the thresholds and under the raised ones.
FilterBoth ==
  /\ th.phase = "called"
  /\ th' = [th EXCEPT !.out = threshold_filter(th.centroids, th.thresholds),
                      !.out_raised = threshold_filter(th.centroids, th.raised),
                      !.phase = "returned"]
  /\ UNCHANGED <<st, hs, mergeVars, cd, sc, cl>>

NextMono == FilterBoth

SpecMono == InitMono /\ [][NextMono]_vars

\* C14: the enrichment filter is monotone in its thresholds: for any centroid
\* table, raising any one of the thresholds of thresholding_step (the
\* enrichment factors 1.5, 1.75, 2.0 or the FDR-orphan threshold 0.02) while
\* keeping the others fixed never adds a centroid to the accepted set.
C14_RaisingNeverAdds ==
  th.phase = "returned" => Range(th.out_raised) \subseteq Range(th.out)

\* C14, amended: raising one of the enrichment factors while keeping the
\* other thresholds fixed never adds a centroid to the accepted set; raising
\* the FDR-orphan threshold never removes one (it is an upper limit on the
\* q-values of a cluster of one pixel, so raising it can add centroids).
C14_MonotoneByKind ==
  th.phase = "returned" =>
    IF th.raised.FDR_orphan_threshold > th.thresholds.FDR_orphan_threshold
    THEN Range(th.out) \subseteq Range(th.out_raised)
    ELSE Range(th.out_raised) \subseteq Range(th.out)

\* A centroid has been filtered under a raised threshold that changes its
\* fate: accepted only before the raise of an enrichment factor, or only
\* after the raise of the FDR-orphan threshold.
C14_Witness ==
  /\ th.phase = "returned"
  /\ th.out # th.out_raised
  /\ \/ th.raised.FDR_orphan_threshold > th.thresholds.FDR_orphan_threshold
        /\ th.out = <<>>
     \/ th.raised.enrichment_factor_3 > th.thresholds.enrichment_factor_3
        /\ th.out_raised = <<>>

\* --------------------------------- scoring_step, scoring_and_histogramming_step
\* The rows the convolution returns for a tile hold at most one pixel: one
\* that is kept, with its count in the first lambda bin or in a later one, or
\* one with as many NaNs as are tolerated, which is dropped.
JobPixels ==
  {[bin1_id |-> 0, bin2_id |-> 0, obs |-> 0, nnans |-> [k \in Kernels |-> 0],
    la |-> [k \in Kernels |-> 1]],
   [bin1_id |-> 0, bin2_id |-> 0, obs |-> 2, nnans |-> [k \in Kernels |-> 0],
    la |-> [k \in Kernels |-> IF k = "donut" THEN 2 ELSE 1]],
   [bin1_id |-> 0, bin2_id |-> 1, obs |-> 1,
    nnans |-> [k \in Kernels |-> IF k = "donut" THEN 1 ELSE 0],
    la |-> [k \in Kernels |-> 1]]}

JobTables == SeqUpTo(JobPixels, 1)

\* job(tile) where the convolution of the tile returned the table result:
\* score_tile for scoring_step, to_hist(to_score(tile)) for
\* scoring_and_histogramming_step, with the ledges call_dots passes.
job(fn, result, nans_tolerated, band_to_cover) ==
  LET res_df == score_tile(result, Kernels, nans_tolerated, band_to_cover)
  IN IF fn = "scoring_and_histogramming_step"
     THEN histogram_scored_pixels(res_df, Kernels, Ledges)
     ELSE res_df

\* What running a tile's job can come to: it raises, or it returns an item.
JobOutcomes(s) ==
  {[st |-> "raised", item |-> job(s.fn, <<>>, s.nans_tolerated, s.band_to_cover)]}
  \cup {[st |-> "ok",
         item |-> job(s.fn, r, s.nans_tolerated, s.band_to_cover)] :
          r \in JobTables}

JobTodo(s) ==
  [st |-> "todo", item |-> job(s.fn, <<>>, s.nans_tolerated, s.band_to_cover)]

\* The frame of a call of one of the two steps.
StepCall(fn, ntiles, nans_tolerated, band_to_cover, nproc, verbose) ==
  LET s == [ScIdle EXCEPT !.fn = fn, !.pc = "begin", !.ntiles = ntiles,
                          !.nans_tolerated = nans_tolerated,
                          !.band_to_cover = band_to_cover,
                          !.nproc = nproc, !.verbose = verbose]
  IN [s EXCEPT !.jobs = [i \in 1..ntiles |-> JobTodo(s)]]

\* if verbose: print("... w,p={},{} kernels".format(len(tiles), w, p)): the
\* names w and p are bound in call_dots only, so the print raises NameError.
StepBegin ==
  /\ sc.pc = "begin"
  /\ sc' = IF sc.verbose
           THEN [sc EXCEPT !.pc = "raised", !.err = "NameError"]
           ELSE [sc EXCEPT !.pc = "pool"]
  /\ UNCHANGED <<st, hs, mergeVars, th, cd, cl>>

\* if nproc > 1: pool = mp.Pool(nproc); map_ = pool.imap  else: map_ = map
CreatePool ==
  /\ sc.pc = "pool"
  /\ sc' = [sc EXCEPT !.pc = "map",
                      !.pool = IF sc.nproc > 1 THEN "open" ELSE "none",
                      !.chunksize = IF sc.nproc > 1
                                    THEN chunksize_of(sc.ntiles, sc.nproc)
                                    ELSE 1]
  /\ UNCHANGED <<st, hs, mergeVars, th, cd, cl>>

\* scoring_step: chunks = map_(job, tiles, **map_kwargs); append = False
ScoringMap ==
  /\ sc.fn = "scoring_step"
  /\ sc.pc = "map"
  /\ sc' = [sc EXCEPT !.pc = "loop", !.append = FALSE]
  /\ UNCHANGED <<st, hs, mergeVars, th, cd, cl>>

\* scoring_and_histogramming_step: hchunks = map_(job, tiles, **map_kwargs),
\* then the finally clause: pool.close() if nproc > 1.
HistMap ==
  /\ sc.fn = "scoring_and_histogramming_step"
  /\ sc.pc = "map"
  /\ sc' = [sc EXCEPT !.pc = "reduce",
                      !.pool = IF sc.nproc > 1 THEN "closed" ELSE sc.pool]
  /\ UNCHANGED <<st, hs, mergeVars, th, cd, cl>>

\* The tasks of pool.imap: a chunk has been run when its first tile has, and
\* has failed when one of its tiles raised.
Submitted(s) == s.pc \in {"loop", "reduce", "returned", "raised"} /\ s.err # "NameError"
ChunkRan(s, c) == s.jobs[(c - 1) * s.chunksize + 1].st # "todo"
ChunkFailed(s, c) ==
  \E i \in tiles_of(c, s.chunksize, s.ntiles) : s.jobs[i].st = "raised"

\* A worker of the pool takes a chunk of tiles and runs the job on each in
\* turn; the first job that raises ends the chunk.  A closed pool still runs
\* the chunks it was given.
WorkerRunsChunk ==
  /\ sc.pool # "none"
  /\ Submitted(sc)
  /\ \E c \in 1..sc.nproc :
       LET ts == tiles_of(c, sc.chunksize, sc.ntiles) IN
       /\ ts # {}
       /\ ~ChunkRan(sc, c)
       /\ \E outs \in [ts -> JobOutcomes(sc)] :
            sc' = [sc EXCEPT !.jobs =
                     [i \in 1..sc.ntiles |->
                        IF i \in ts /\ \A j \in ts : j < i => outs[j].st = "ok"
                        THEN outs[i] ELSE sc.jobs[i]]]
  /\ UNCHANGED <<st, hs, mergeVars, th, cd, cl>>

\* The items the iterator over the jobs' results can hand over next: map
\* runs the job of the next tile; pool.imap keeps the order of the tiles and
\* hands over the next tile's item once its chunk has been run.
NextItems_mut(s) ==
  IF s.pool = "none" THEN JobOutcomes(s)
  ELSE {s.jobs[i] : i \in {j \in s.nxt..s.ntiles : s.jobs[j].st = "ok"}}
NextItems(s) ==
  IF s.pool = "none" THEN JobOutcomes(s)
  ELSE IF ~ChunkRan(s, chunk_of(s.nxt, s.chunksize)) THEN {}
  ELSE IF ChunkFailed(s, chunk_of(s.nxt, s.chunksize))
  THEN {[JobTodo(s) EXCEPT !.st = "raised"]}
  ELSE {s.jobs[s.nxt]}

\* The finally clause of scoring_step: if nproc > 1: pool.close()
pool_after_finally_mut(s) == s.pool
pool_after_finally(s) == IF s.nproc > 1 THEN "closed" ELSE s.pool

\* scoring_step: one turn of  for chunk in chunks: chunk.to_hdf(output_path,
\* key='results', format='table', append=append); append = True.  The next
\* item is the next tile's, in the order of the tiles: map runs the job now,
\* pool.imap hands it over once the tile's chunk has been run and raises what
\* the chunk raised.  to_hdf writes the table or raises.  The end of the
\* items and an exception both leave through the finally clause.
WriteChunk ==
  /\ sc.fn = "scoring_step"
  /\ sc.pc = "loop"
  /\ IF sc.nxt > sc.ntiles
     THEN sc' = [sc EXCEPT !.pc = "returned", !.pool = pool_after_finally(sc)]
     ELSE
       \E out \in NextItems(sc), written \in BOOLEAN :
         LET ran == IF sc.pool = "none"
                       THEN [sc EXCEPT !.jobs[sc.nxt] = out]
                       ELSE sc
         IN sc' = IF out.st = "raised"
                     THEN [ran EXCEPT !.pc = "raised", !.err = "job",
                                      !.pool = pool_after_finally(sc)]
                     ELSE IF ~written
                     THEN [ran EXCEPT !.pc = "raised", !.err = "write",
                                      !.pool = pool_after_finally(sc)]
                     ELSE [ran EXCEPT
                             !.nxt = sc.nxt + 1,
                             !.file = IF sc.append
                                      THEN Append(sc.file, out.item)
                                      ELSE <<out.item>>,
                             !.append = TRUE]
  /\ UNCHANGED <<st, hs, mergeVars, th, cd, cl>>

\* scoring_and_histogramming_step: one turn of reduce(_sum_hists, hchunks).
\* The first item starts the sum, every later one is added with _sum_hists;
\* at the end of the items reduce returns the sum, and raises TypeError if
\* there was no item.
ReduceHists ==
  /\ sc.fn = "scoring_and_histogramming_step"
  /\ sc.pc = "reduce"
  /\ IF sc.nxt > sc.ntiles
     THEN sc' = IF sc.has_acc
                THEN [sc EXCEPT !.pc = "returned"]
                ELSE [sc EXCEPT !.pc = "raised", !.err = "TypeError"]
     ELSE
       \E out \in NextItems(sc) :
         LET ran == IF sc.pool = "none"
                       THEN [sc EXCEPT !.jobs[sc.nxt] = out]
                       ELSE sc
                r == IF sc.has_acc
                     THEN sum_hists(sc.acc, out.item, Kernels)
                     ELSE [ok |-> TRUE, h |-> out.item]
         IN sc' = IF out.st = "raised"
                     THEN [ran EXCEPT !.pc = "raised", !.err = "job"]
                     ELSE IF r.ok
                     THEN [ran EXCEPT !.nxt = sc.nxt + 1, !.acc = r.h,
                                      !.has_acc = TRUE]
                     ELSE [ran EXCEPT !.pc = "raised", !.err = "sum"]
  /\ UNCHANGED <<st, hs, mergeVars, th, cd, cl>>

\* ----------------------------------- the calls of the two steps (SpecScoring)
StepNames == {"scoring_step", "scoring_and_histogramming_step"}
NProcs == {1, 2}

InitScoring ==
  /\ sc \in {StepCall(fn, n, max_nans_tolerated, max_loci_separation \div 10000,
                      np, v) :
               fn \in StepNames, n \in 0..MaxTiles, np \in NProcs,
               v \in BOOLEAN}
  /\ cd = CdIdle /\ cl = ClIdle
  /\ st = StIdle /\ hs = HsIdle /\ th = ThIdle
  /\ parts = <<>> /\ hpool = <<>> /\ merr = FALSE

NextScoring ==
  \/ StepBegin
  \/ CreatePool
  \/ ScoringMap
  \/ HistMap
  \/ WorkerRunsChunk
  \/ WriteChunk
  \/ ReduceHists

SpecScoring == InitScoring /\ [][NextScoring]_vars

\* C12: with a worker pool (nproc > 1) tile results stream back in
\* completion order, not submission order: the coordinator consumes a tile's
\* result as soon as that tile is finished, independent of whether tiles
\* submitted earlier have finished; so whenever the coordinator is waiting
\* for an item and some tile not yet consumed is finished, an item is handed
\* over.
C12_CompletionOrder ==
  (/\ sc.pool # "none"
   /\ sc.pc \in {"loop", "reduce"}
   /\ \E i \in sc.nxt..sc.ntiles : sc.jobs[i].st = "ok")
  => NextItems(sc) # {}

\* C12, amended: with a worker pool tile results come back in submission
\* order: the tiles consumed so far are the first tiles, each one finished,
\* whatever later tiles have finished, and scoring_step has written their
\* tables in the order of the tiles.
C12_SubmissionOrder ==
  sc.pool # "none" =>
    /\ \A i \in 1..(sc.nxt - 1) : sc.jobs[i].st = "ok"
    /\ sc.fn = "scoring_step" =>
         /\ Len(sc.file) = sc.nxt - 1
         /\ \A n \in 1..Len(sc.file) : sc.file[n] = sc.jobs[n].item

\* With a pool, the tile of a later chunk is finished, the first tile's is
\* not, and the coordinator has consumed nothing.
C12_Witness ==
  /\ sc.pool # "none"
  /\ sc.pc \in {"loop", "reduce"}
  /\ sc.ntiles >= 2
  /\ sc.nxt = 1
  /\ sc.jobs[1].st = "todo"
  /\ \E i \in 2..sc.ntiles : sc.jobs[i].st = "ok"

\* C13: the worker pool is released on both success and failure paths: in
\* scoring_step and scoring_and_histogramming_step, whenever nproc > 1 and a
\* pool has been created, the pool is closed on every path that leaves the
\* step, whether the step returns or a tile-scoring task or a write raises;
\* with nproc <= 1 no pool is created or closed.
C13_PoolReleased ==
  /\ sc.pc \in {"returned", "raised"} => sc.pool # "open"
  /\ (sc.pc \in {"returned", "raised"} /\ sc.nproc > 1 /\ sc.err # "NameError")
       => sc.pool = "closed"
  /\ sc.nproc <= 1 => sc.pool = "none"

\* scoring_step with a pool has left on a failed write after a tile was
\* written, and its pool is closed.
C13_Witness ==
  /\ sc.fn = "scoring_step"
  /\ sc.pc = "raised"
  /\ sc.err = "write"
  /\ sc.nproc > 1
  /\ sc.pool = "closed"
  /\ Len(sc.file) >= 1

\* C15: the verbose flag only enables diagnostic output and does not change
\* the outcome: scoring_step and scoring_and_histogramming_step called with
\* verbose true terminate the same way as with verbose false.  A call with
\* verbose false ends returning, or raising what a job, a write, the sum or
\* the reduction of no items raised, and scoring_step on no tiles returns;
\* so must a call with verbose true.
C15_VerboseSameOutcome ==
  /\ (~sc.verbose /\ sc.pc \in {"returned", "raised"}) =>
       /\ sc.err \in {"none", "job", "write", "sum", "TypeError"}
       /\ (sc.fn = "scoring_step" /\ sc.ntiles = 0) => sc.pc = "returned"
  /\ (sc.verbose /\ sc.pc \in {"returned", "raised"}) =>
       /\ sc.err \in {"none", "job", "write", "sum", "TypeError"}
       /\ (sc.fn = "scoring_step" /\ sc.ntiles = 0) => sc.pc = "returned"

\* C8: any worker failure aborts the entire run with no partial results and
\* no retry: if scoring any tile raises in scoring_step or
\* scoring_and_histogramming_step, the exception propagates to the caller
\* (the step ends raising, never returning), no tile is scored a second time
\* (a tile whose job ran is not run again: the tiles past the failure stay
\* unscored in map, the other chunk's tiles are scored once in the pool), no
\* histogram is returned, and no scored-pixel rows of tiles that completed
\* earlier remain in the output file.
C8_FailureLeavesNothing ==
  ((\E i \in 1..Len(sc.jobs) : sc.jobs[i].st = "raised")
   /\ sc.pc \in {"raised", "returned"})
  => /\ sc.pc = "raised"
     /\ sc.err # "none"
     /\ \A n \in 1..Len(sc.file) : sc.file[n] = <<>>

\* ------------------------------------------------- a run of call_dots (Spec)
\* The inputs: a cooler and an expected table over two chromosome names, the
\* cooler's bin size on both sides of every limit of the resolution test.
ChromNames == {"chr1", "chr2"}
BinCounts == {1, 2}
BinSizes == {3999, 4000, 8000, 18000, 28000, 28001}

ChromTables == UNION {[cs -> BinCounts] : cs \in SUBSET ChromNames}

Init ==
  /\ cd \in {[CdIdle EXCEPT !.pc = "check_chroms", !.clr = c, !.expected = e,
                            !.binsize = b, !.nproc = np, !.verbose = v] :
               c \in ChromTables, e \in ChromTables, b \in BinSizes,
               np \in NProcs, v \in BOOLEAN}
  /\ sc = ScIdle /\ cl = ClIdle
  /\ st = StIdle /\ hs = HsIdle /\ th = ThIdle
  /\ parts = <<>> /\ hpool = <<>> /\ merr = FALSE

\* expected_chroms = get_exp_chroms(expected);
\* if not set(expected_chroms).issubset(clr.chromnames): raise ValueError
CheckChroms ==
  /\ cd.pc = "check_chroms"
  /\ LET expected_chroms == get_exp_chroms(cd.expected)
     IN cd' = IF chroms_issubset(expected_chroms, DOMAIN cd.clr)
              THEN [cd EXCEPT !.pc = "check_bins",
                              !.expected_chroms = expected_chroms]
              ELSE [cd EXCEPT !.pc = "raised", !.err = "ValueError: chromosomes",
                              !.expected_chroms = expected_chroms]
  /\ UNCHANGED <<st, hs, mergeVars, th, sc, cl>>

\* expected_bins = get_exp_bins(expected, expected_chroms);
\* cool_bins = clr.bins()[:]["chrom"].isin(expected_chroms).sum();
\* if not (expected_bins == cool_bins): raise ValueError
CheckBins ==
  /\ cd.pc = "check_bins"
  /\ LET expected_bins == get_exp_bins(cd.expected, cd.expected_chroms)
         cool_bins == get_cool_bins(cd.clr, cd.expected_chroms)
     IN cd' = IF expected_bins = cool_bins
              THEN [cd EXCEPT !.pc = "kernels"]
              ELSE [cd EXCEPT !.pc = "raised", !.err = "ValueError: bins"]
  /\ UNCHANGED <<st, hs, mergeVars, th, sc, cl>>

\* loci_separation_bins = int(max_loci_separation/binsize), then w, p from
\* the cooler's resolution, or ValueError; kernels for every ktype.
SetKernelParams ==
  /\ cd.pc = "kernels"
  /\ LET wp == kernel_params(cd.binsize)
     IN cd' = IF wp.ok
              THEN [cd EXCEPT !.pc = "ledges", !.w = wp.w, !.p = wp.p,
                              !.loci_separation_bins =
                                 max_loci_separation \div cd.binsize]
              ELSE [cd EXCEPT !.pc = "raised", !.err = "ValueError: resolution",
                              !.loci_separation_bins =
                                 max_loci_separation \div cd.binsize]
  /\ UNCHANGED <<st, hs, mergeVars, th, sc, cl>>

\* nlchunks = HiCCUPS_W1_MAX_INDX; ledges = np.concatenate(...)
BuildLedges ==
  /\ cd.pc = "ledges"
  /\ cd' = [cd EXCEPT !.pc = "tiles", !.ledges = make_ledges(HiCCUPS_W1_MAX_INDX)]
  /\ UNCHANGED <<st, hs, mergeVars, th, sc, cl>>

\* tiles = list(dotfinder.heatmap_tiles_generator_diag(clr, expected_chroms,
\* w, tile_size_bins, loci_separation_bins)): tiles along the diagonal of
\* every expected chromosome, none when there is no expected chromosome.
GenerateTiles ==
  /\ cd.pc = "tiles"
  /\ \E n \in 0..MaxTiles :
       /\ (n = 0) = (cd.expected_chroms = {})
       /\ cd' = [cd EXCEPT !.pc = "call_step", !.ntiles = n, !.tiles_made = TRUE]
  /\ UNCHANGED <<st, hs, mergeVars, th, sc, cl>>

\* gw_hist = scoring_and_histogramming_step(clr, expected, expected_name,
\* tiles, kernels, ledges, max_nans_tolerated, loci_separation_bins, None,
\* nproc, verbose): the call.
CallStep ==
  /\ cd.pc = "call_step"
  /\ cd' = [cd EXCEPT !.pc = "scoring"]
  /\ sc' = StepCall("scoring_and_histogramming_step", cd.ntiles,
                    max_nans_tolerated, cd.loci_separation_bins, cd.nproc,
                    cd.verbose)
  /\ UNCHANGED <<st, hs, mergeVars, th, cl>>

\* The step raised: call_dots catches nothing, the exception leaves it.
StepRaises ==
  /\ cd.pc = "scoring"
  /\ sc.pc = "raised"
  /\ cd' = [cd EXCEPT !.pc = "raised", !.err = sc.err]
  /\ UNCHANGED <<st, hs, mergeVars, th, sc, cl>>

\* The step returned gw_hist;  for k in kernels: gw_hist[k].to_csv(
\* "{}.{}.hist.txt".format(output_scores, k), ...)
WriteHists ==
  /\ cd.pc = "scoring"
  /\ sc.pc = "returned"
  /\ cd' = [cd EXCEPT !.pc = "finish", !.gw_hist = sc.acc,
                      !.hist_files = Kernels]
  /\ UNCHANGED <<st, hs, mergeVars, th, sc, cl>>

\* if False: centroids = clustering_step(scores_file, ...);
\*           thresholding_step(centroids, output_calls)
\* The name scores_file is bound nowhere: were the branch taken, evaluating
\* the arguments of clustering_step would raise NameError.
Finish_mut ==
  /\ cd.pc = "finish"
  /\ cd' = [cd EXCEPT !.pc = "done", !.clustered = TRUE, !.thresholded = TRUE,
                      !.calls_written = TRUE]
  /\ UNCHANGED <<st, hs, mergeVars, th, sc, cl>>
Finish ==
  /\ cd.pc = "finish"
  /\ cd' = IF clustering_enabled
           THEN [cd EXCEPT !.pc = "raised", !.err = "NameError"]
           ELSE [cd EXCEPT !.pc = "done"]
  /\ UNCHANGED <<st, hs, mergeVars, th, sc, cl>>

Next ==
  \/ CheckChroms
  \/ CheckBins
  \/ SetKernelParams
  \/ BuildLedges
  \/ GenerateTiles
  \/ CallStep
  \/ StepBegin
  \/ CreatePool
  \/ HistMap
  \/ WorkerRunsChunk
  \/ ReduceHists
  \/ StepRaises
  \/ WriteHists
  \/ Finish

Spec == Init /\ [][Next]_vars

\* ---- claims about the run
\* C2: the lambda-bin edges built by call_dots form a strictly increasing
\* partition of the real line with exactly 42 bins: the bin (-inf,1], 40
\* logarithmically spaced bins with ratio 2^(1/3) (consecutive exponents of
\* the base), and a last bin reaching +inf.
C2_FortyTwoBins ==
  cd.ledges # <<>> =>
    /\ NumBins(cd.ledges) = 42
    /\ \A i \in 1..NumBins(cd.ledges) : EdgeLess(cd.ledges[i], cd.ledges[i + 1])
    /\ cd.ledges[1] = NegInf
    /\ cd.ledges[2] = Fin(0)
    /\ cd.ledges[Len(cd.ledges)] = PosInf
    /\ Cardinality({i \in 1..NumBins(cd.ledges) :
                      /\ cd.ledges[i].inf = 0
                      /\ cd.ledges[i + 1].inf = 0
                      /\ cd.ledges[i + 1].e = cd.ledges[i].e + 1}) = 40

\* The checks of call_dots have all been passed or one of them has raised.
CheckedChroms == cd.pc \notin {"idle", "check_chroms"}
Validated == cd.pc \notin {"idle", "check_chroms", "check_bins", "kernels"}
Rejected ==
  /\ cd.pc = "raised"
  /\ cd.err \in {"ValueError: chromosomes", "ValueError: bins",
                 "ValueError: resolution"}
  /\ sc.pc = "idle"
  /\ ~cd.tiles_made
  /\ cd.hist_files = {}

\* C5: an expected profile omitting a chromosome present in the matrix
\* triggers a validation error in call_dots before scoring starts.
C5_OmissionRejected ==
  (DOMAIN cd.clr) \ (DOMAIN cd.expected) # {} =>
    /\ sc.pc = "idle"
    /\ Validated => Rejected

\* C5, amended: an expected profile naming a chromosome that the matrix does
\* not have triggers the chromosome validation error of call_dots before
\* scoring starts; an expected profile that only omits chromosomes of the
\* matrix passes the chromosome check.
C5_ForeignChromRejected ==
  CheckedChroms =>
    IF (DOMAIN cd.expected) \ (DOMAIN cd.clr) # {}
    THEN Rejected /\ cd.err = "ValueError: chromosomes"
    ELSE cd.err # "ValueError: chromosomes"

\* A profile that names a chromosome the matrix lacks, and omits one the
\* matrix has, has been rejected.
C5_Witness ==
  /\ (DOMAIN cd.expected) \ (DOMAIN cd.clr) # {}
  /\ (DOMAIN cd.clr) \ (DOMAIN cd.expected) # {}
  /\ cd.pc = "raised"

\* C6: call_dots rejects its input whenever, for some chromosome present in
\* both the expected profile and the matrix, the bin count of the expected
\* profile differs from the bin count of the matrix.
BinCountMismatch ==
  \E c \in (DOMAIN cd.expected) \cap (DOMAIN cd.clr) : cd.expected[c] # cd.clr[c]

C6_PerChromMismatchRejected ==
  BinCountMismatch /\ Validated => Rejected

\* C7: validation is fail-fast: in every run where the expected chromosomes
\* are not a subset of the matrix chromosomes, or the bin counts do not
\* match, or the bin size is below 4000 or above 28000, an error is raised
\* before tiles are generated, before any tile is scored, before any worker
\* pool is created and before any output file is written; a bin size from
\* 4000 to 28000 is never rejected for its resolution.
C7_FailFast ==
  /\ (\/ ~((DOMAIN cd.expected) \subseteq (DOMAIN cd.clr))
      \/ BinCountMismatch
      \/ cd.binsize < 4000
      \/ cd.binsize > 28000)
     => /\ ~cd.tiles_made
        /\ sc.pc = "idle" /\ sc.pool = "none"
        /\ \A i \in 1..Len(sc.jobs) : sc.jobs[i].st = "todo"
        /\ cd.hist_files = {}
        /\ (Validated => Rejected)
  /\ (cd.binsize >= 4000 /\ cd.binsize <= 28000)
     => cd.err # "ValueError: resolution"

\* C9: clustering and thresholding never execute implicitly: in every run of
\* call_dots, which never computes the q-values and FDR thresholds of the
\* significance-testing stage, neither clustering_step nor thresholding_step
\* is executed and no dot-call output is written.
C9_NoImplicitClustering ==
  /\ ~cd.clustered
  /\ ~cd.thresholded
  /\ ~cd.calls_written
  /\ th = ThIdle

\* A run ended after writing the histogram of every kernel, merged from more
\* than one tile.
C9_Witness ==
  /\ cd.pc = "done"
  /\ cd.hist_files = Kernels
  /\ cd.ntiles >= 2
  /\ \E k \in Kernels : cd.gw_hist[k].nrows > 0

\* ------------------------------ clustering_step: the centroids (SpecClust)
\* The table df that clustering_step groups: the FDR-compliant pixels merged
\* with their cluster labels.  A row holds its index label idx, its
\* chromosomes, its cluster label c_label, its observed count obs and its
\* bins.  The rows of a table have distinct index labels and distinct bins;
\* the tables here are on one chromosome.
RECURSIVE SortedSeq(_)
SortedSeq(S) ==
  IF S = {} THEN <<>>
  ELSE LET m == CHOOSE x \in S : \A y \in S : x <= y
       IN <<m>> \o SortedSeq(S \ {m})

\* chrom_clust_group["obs.raw"].idxmax() for the group of cluster label c:
\* the index label of the first row of the group, in the order of the rows
\* of df, that holds the group's largest observed count.
idxmax(df, c) ==
  LET ps == {i \in 1..Len(df) : df[i].c_label = c}
      top == {i \in ps : \A j \in ps : df[j].obs <= df[i].obs}
      first == CHOOSE i \in top : \A j \in top : i <= j
  IN df[first].idx

\* df.loc[labels]: for every label in turn, the rows of df that carry it.
RECURSIVE loc(_, _)
loc(df, labels) ==
  IF labels = <<>> THEN <<>>
  ELSE Filter(df, [i \in 1..Len(df) |-> df[i].idx = labels[1]])
       \o loc(df, Tail(labels))

\* chrom_clust_group = df.groupby(["chrom1", "chrom2", "c_label"]);
\* centroids = df.loc[chrom_clust_group["obs.raw"].idxmax()]: the groups come
\* in the order of their keys.
select_centroids(df) ==
  LET groups == SortedSeq({df[i].c_label : i \in 1..Len(df)})
  IN loc(df, [g \in 1..Len(groups) |-> idxmax(df, groups[g])])

ClustBins == {<<1, 1>>, <<1, 2>>, <<2, 2>>}

\* The tables of up to three rows, their index labels in the order of the
\* rows, and the permutations of the rows of a table.
ClustTables ==
  UNION {{[i \in 1..n |->
             [idx |-> i, chrom1 |-> "chr1", chrom2 |-> "chr1",
              c_label |-> c[i], obs |-> o[i],
              bin1_id |-> b[i][1], bin2_id |-> b[i][2]]] :
            c \in [1..n -> {0, 1}], o \in [1..n -> {1, 2}],
            b \in {f \in [1..n -> ClustBins] :
                     \A i, j \in 1..n : i # j => f[i] # f[j]}} :
         n \in 0..3}

Shuffles(t) ==
  {[i \in 1..Len(t) |-> t[q[i]]] :
     q \in {f \in [1..Len(t) -> 1..Len(t)] :
              \A i, j \in 1..Len(t) : i # j => f[i] # f[j]}}

InitClust ==
  /\ \E t \in ClustTables :
       \E u \in Shuffles(t) :
         cl = [phase |-> "called", df |-> t, shuffled |-> u,
               centroids |-> <<>>, centroids_shuffled |-> <<>>]
  /\ cd = CdIdle /\ sc = ScIdle
  /\ st = StIdle /\ hs = HsIdle /\ th = ThIdle
  /\ parts = <<>> /\ hpool = <<>> /\ merr = FALSE

\* The centroids are selected for the table and for the shuffle of its rows.
SelectCentroids ==
  /\ cl.phase = "called"
  /\ cl' = [cl EXCEPT !.centroids = select_centroids(cl.df),
                      !.centroids_shuffled = select_centroids(cl.shuffled),
                      !.phase = "returned"]
  /\ UNCHANGED <<st, hs, mergeVars, th, cd, sc>>

NextClust == SelectCentroids

SpecClust == InitClust /\ [][NextClust]_vars

\* (bin1, bin2) of a is not above that of b.
C11_BinsLeq(a, b) ==
  \/ a.bin1_id < b.bin1_id
  \/ a.bin1_id = b.bin1_id /\ a.bin2_id <= b.bin2_id

\* C11: centroid selection in clustering_step is deterministic under input
\* reordering: for any table of clustered pixels and any permutation of its
\* rows the centroid chosen for each cluster is the same pixel, the member
\* with the largest observed count, ties broken by lowest (bin1, bin2), and
\* exactly one centroid is chosen per cluster.
C11_CentroidDeterministic ==
  cl.phase = "returned" =>
    /\ Range(cl.centroids) = Range(cl.centroids_shuffled)
    /\ \A i \in 1..Len(cl.df) :
         Cardinality({n \in 1..Len(cl.centroids) :
                        cl.centroids[n].c_label = cl.df[i].c_label}) = 1
    /\ \A n \in 1..Len(cl.centroids) : \A i \in 1..Len(cl.df) :
         cl.df[i].c_label = cl.centroids[n].c_label =>
           \/ cl.df[i].obs < cl.centroids[n].obs
           \/ /\ cl.df[i].obs = cl.centroids[n].obs
              /\ C11_BinsLeq(cl.centroids[n], cl.df[i])

============================================================================
